---- MODULE Spec2Model ----
(***************************************************************************)
(* Model of automation-tool/paper_downloader_enhanced.py: the section-     *)
(* scoped title parser (is_paper_title_line, extract_title_from_line,      *)
(* parse_papers_from_main_readme) and the process_papers pipeline          *)
(* (deduplication, search fallback, download with existence check).        *)
(* Lines and titles are TLA+ strings; the regular expressions of the       *)
(* source are written out as operators over character positions.           *)
(***************************************************************************)
EXTENDS Integers, Sequences, FiniteSets, TLC

(***************************************************************************)
(* Bounds of the model.                                                    *)
(***************************************************************************)
MaxLines == 3
MaxInvocations == 3
MaxRepeatLines == 2
MaxPipeLines == 3
MaxOrderLines == 5
MaxTitleParts == 3
MaxLineParts == 3

(***************************************************************************)
(* Characters and strings (str.strip, str.lower, str.startswith, `in`).    *)
(***************************************************************************)
None == "None"

Ch(s, i) == IF i >= 1 /\ i <= Len(s) THEN SubSeq(s, i, i) ELSE ""

\* the slice s[i-1:j] of Python, positions counted from 1
Sub(s, i, j) ==
    LET a == IF i < 1 THEN 1 ELSE i
        b == IF j > Len(s) THEN Len(s) ELSE j
    IN IF a > b THEN "" ELSE SubSeq(s, a, b)

IsSpace(c) == c \in {" ", "\t", "\n", "\r"}

IsDigit(c) == c \in {"0", "1", "2", "3", "4", "5", "6", "7", "8", "9"}

UpperChars == "ABCDEFGHIJKLMNOPQRSTUVWXYZ"

LowerChars == "abcdefghijklmnopqrstuvwxyz"

LowerCh(c) ==
    IF \E i \in 1..26 : Ch(UpperChars, i) = c
    THEN Ch(LowerChars, CHOOSE i \in 1..26 : Ch(UpperChars, i) = c)
    ELSE c

IsWordCh(c) ==
    \/ IsDigit(c)
    \/ c = "_"
    \/ \E i \in 1..26 : c = Ch(UpperChars, i) \/ c = Ch(LowerChars, i)

RECURSIVE lower(_)
lower(s) == IF s = "" THEN "" ELSE LowerCh(Ch(s, 1)) \o lower(Sub(s, 2, Len(s)))

\* first position >= i holding a non-whitespace character, Len(s)+1 if none
SkipSpaces(s, i) ==
    IF \E k \in i..Len(s) : ~IsSpace(Ch(s, k))
    THEN CHOOSE k \in i..Len(s) :
            /\ ~IsSpace(Ch(s, k))
            /\ \A m \in i..(k - 1) : IsSpace(Ch(s, m))
    ELSE Len(s) + 1

\* last position holding a non-whitespace character, 0 if none
LastNonSpace(s) ==
    IF \E k \in 1..Len(s) : ~IsSpace(Ch(s, k))
    THEN CHOOSE k \in 1..Len(s) :
            /\ ~IsSpace(Ch(s, k))
            /\ \A m \in (k + 1)..Len(s) : IsSpace(Ch(s, m))
    ELSE 0

strip(s) == Sub(s, SkipSpaces(s, 1), LastNonSpace(s))

\* start of the whitespace run that ends right before position k
RunStart(s, k) ==
    CHOOSE b \in 1..k :
        /\ \A m \in b..(k - 1) : IsSpace(Ch(s, m))
        /\ (b = 1 \/ ~IsSpace(Ch(s, b - 1)))

startswith(s, p) == Len(s) >= Len(p) /\ Sub(s, 1, Len(p)) = p

\* s[i:] begins with literal p, compared case-insensitively (p is lowercase)
LitAt(s, i, p) ==
    /\ i >= 1
    /\ i + Len(p) - 1 <= Len(s)
    /\ lower(Sub(s, i, i + Len(p) - 1)) = p

contains(s, p) == \E i \in 1..(Len(s) - Len(p) + 1) : Sub(s, i, i + Len(p) - 1) = p

\* (?:\s|$) at position i of a line without newline
SpaceOrEnd(s, i) == i = Len(s) + 1 \/ IsSpace(Ch(s, i))

\* first position >= i holding character c, 0 if none
Find(s, i, c) ==
    IF \E k \in i..Len(s) : Ch(s, k) = c
    THEN CHOOSE k \in i..Len(s) :
            /\ Ch(s, k) = c
            /\ \A m \in i..(k - 1) : Ch(s, m) # c
    ELSE 0

\* position after the leading run of '#' (#+ is greedy), 0 if the run is empty
AfterHashes(s) ==
    IF Ch(s, 1) # "#" THEN 0
    ELSE CHOOSE k \in 2..(Len(s) + 1) :
            /\ \A m \in 1..(k - 1) : Ch(s, m) = "#"
            /\ Ch(s, k) # "#"

(***************************************************************************)
(* Section headers (parse_papers_from_main_readme, the inner for loop).    *)
(***************************************************************************)
SectionNames ==
    << "CVPR", "ICLR", "NeurIPS", "ICCV", "ICML", "ECCV", "AAAI", "WACV",
       "BMVC", "Test-of-Time-Papers" >>

SectionSet == { SectionNames[i] : i \in 1..Len(SectionNames) }

\* literal w at position i followed by \s+ : position after the run, else 0
WordThenSpaces(s, i, w) ==
    IF LitAt(s, i, w) /\ IsSpace(Ch(s, i + Len(w)))
    THEN SkipSpaces(s, i + Len(w))
    ELSE 0

\* re.match(r'#+\s*test\s+of\s+time\s+papers?(?:\s|$)', s, re.IGNORECASE)
TestOfTimeHeader(s) ==
    LET a == AfterHashes(s) IN
    /\ a # 0
    /\ LET b == WordThenSpaces(s, SkipSpaces(s, a), "test")
           c == WordThenSpaces(s, b, "of")
           d == WordThenSpaces(s, c, "time")
       IN /\ b # 0 /\ c # 0 /\ d # 0
          /\ LitAt(s, d, "paper")
          /\ \/ SpaceOrEnd(s, d + 5)
             \/ (LitAt(s, d + 5, "s") /\ SpaceOrEnd(s, d + 6))

\* variant: the same pattern without re.IGNORECASE
RegularHeaderCaseSensitive(section_name, s) ==
    LET a == AfterHashes(s) IN
    /\ a # 0
    /\ LET b == SkipSpaces(s, a) IN
       /\ Sub(s, b, b + Len(section_name) - 1) = section_name
       /\ SpaceOrEnd(s, b + Len(section_name))

\* re.match(rf'#+\s*{re.escape(section_name)}(?:\s|$)', s, re.IGNORECASE)
RegularHeader(section_name, s) ==
    LET a == AfterHashes(s) IN
    /\ a # 0
    /\ LET b == SkipSpaces(s, a) IN
       /\ LitAt(s, b, lower(section_name))
       /\ SpaceOrEnd(s, b + Len(section_name))

\* variant: no special case, every section is matched by its key string
HeaderMatchesLiteral(section_name, s) == RegularHeader(section_name, s)

HeaderMatches(section_name, s) ==
    IF section_name = "Test-of-Time-Papers"
    THEN TestOfTimeHeader(s)
    ELSE RegularHeader(section_name, s)

\* the section the for loop breaks on: first name in dictionary order whose
\* pattern matches, None when section_found stays False
section_found(s) ==
    IF \E i \in 1..Len(SectionNames) : HeaderMatches(SectionNames[i], s)
    THEN SectionNames[CHOOSE i \in 1..Len(SectionNames) :
            /\ HeaderMatches(SectionNames[i], s)
            /\ \A j \in 1..(i - 1) : ~HeaderMatches(SectionNames[j], s)]
    ELSE None

(***************************************************************************)
(* is_paper_title_line                                                     *)
(***************************************************************************)
AllOf(s, c) == Len(s) >= 1 /\ \A i \in 1..Len(s) : Ch(s, i) = c

\* optional literal o at position i: the positions the matcher may continue at
Opt(s, i, o) == {i} \cup (IF LitAt(s, i, o) THEN {i + Len(o)} ELSE {})

NumSkipPatterns == 22

\* re.match(skip_patterns[k], line, re.IGNORECASE)
skip_patterns(k, line) ==
    CASE k = 1  -> LitAt(line, 1, "author")
                   /\ \E i \in Opt(line, 7, "s") : Ch(line, i) = ":"
      [] k = 2  -> Ch(line, 1) = "#"
      [] k = 3  -> LitAt(line, 1, "best paper")
                   /\ \E i \in Opt(line, 11, "s") : IsSpace(Ch(line, i))
      [] k = 4  -> LitAt(line, 1, "best paper") /\ IsSpace(Ch(line, 11))
      [] k = 5  -> LitAt(line, 1, "best student") /\ IsSpace(Ch(line, 13))
      [] k = 6  -> LitAt(line, 1, "longuet-higgins") /\ IsSpace(Ch(line, 16))
      [] k = 7  -> LitAt(line, 1, "test of time") /\ IsSpace(Ch(line, 13))
      [] k = 8  -> LitAt(line, 1, "helmholtz") /\ IsSpace(Ch(line, 10))
      [] k = 9  -> LitAt(line, 1, "outstanding") /\ IsSpace(Ch(line, 12))
      [] k = 10 -> LitAt(line, 1, "award candidates")
      [] k = 11 -> LitAt(line, 1, "runner")
                   /\ \E i \in Opt(line, 7, "s") :
                        \E j \in {i} \cup (IF IsSpace(Ch(line, i)) THEN {i + 1} ELSE {}) :
                            LitAt(line, j, "up")
      [] k = 12 -> LitAt(line, 1, "content")
                   /\ \E i \in Opt(line, 8, "s") : i = Len(line) + 1
      [] k = 13 -> /\ Ch(line, 1) = "["
                   /\ \E i \in 2..Len(line) :
                        /\ Ch(line, i) = "]"
                        /\ Ch(line, i + 1) = "["
                        /\ Find(line, i + 2, "]") # 0
      [] k = 14 -> LitAt(line, 1, "back to top")
      [] k = 15 -> LitAt(line, 1, "table of contents")
      [] k = 16 -> /\ \A i \in 1..4 : IsDigit(Ch(line, i))
                   /\ SkipSpaces(line, 5) = Len(line) + 1
      [] k = 17 -> AllOf(line, "-")
      [] k = 18 -> AllOf(line, "=")
      [] k = 19 -> AllOf(line, "*")
      [] k = 20 -> Ch(line, SkipSpaces(line, 1)) = "|"
      [] k = 21 -> LitAt(line, 1, "venue") /\ IsSpace(Ch(line, 6))
      [] k = 22 -> LitAt(line, 1, "year") /\ IsSpace(Ch(line, 5))

\* re.search(r'\[paper\]|\[pdf\]|\[link\]', line, re.IGNORECASE)
has_paper_indicator(line) ==
    \E i \in 1..Len(line) :
        LitAt(line, i, "[paper]") \/ LitAt(line, i, "[pdf]") \/ LitAt(line, i, "[link]")

\* the code-fence marker of line 113: the backquote cannot be written in a
\* TLA+ string, so the character "~" stands for it in every modelled line
CodeFence == "~~~"

is_reasonable_title(line) ==
    /\ Len(line) > 15
    /\ ~(startswith(line, "http") \/ startswith(line, "www") \/ startswith(line, CodeFence))

is_paper_title_line(raw) ==
    LET line == strip(raw) IN
    /\ line # ""
    /\ \A k \in 1..NumSkipPatterns : ~skip_patterns(k, line)
    /\ Len(line) >= 10
    /\ (has_paper_indicator(line) \/ is_reasonable_title(line))

(***************************************************************************)
(* extract_title_from_line                                                 *)
(***************************************************************************)
\* the tail \s*\([^)]+\)\s*\[.*?\] of the first pattern matches at position j
ParenBracketAt(s, j) ==
    LET k == SkipSpaces(s, j)
        m == Find(s, k + 1, ")")
        p == SkipSpaces(s, m + 1)
    IN /\ Ch(s, k) = "("
       /\ m >= k + 2
       /\ Ch(s, p) = "["
       /\ Find(s, p + 1, "]") # 0

\* re.match(r'^(.+?)\s*\([^)]+\)\s*\[.*?\]', line): end of the lazy group 1
\* (the shortest prefix after which the tail matches), 0 when no match
match(line) ==
    IF \E i \in 1..Len(line) : ParenBracketAt(line, i + 1)
    THEN CHOOSE i \in 1..Len(line) :
            /\ ParenBracketAt(line, i + 1)
            /\ \A h \in 1..(i - 1) : ~ParenBracketAt(line, h + 1)
    ELSE 0

\* ']' at q closes a link label: \]\([^)]+\) matches at q
LinkTailAt(s, q) ==
    /\ Ch(s, q) = "]"
    /\ Ch(s, q + 1) = "("
    /\ Find(s, q + 2, ")") >= q + 3

\* \[(.+?)\]\([^)]+\) matches with '[' at p: the lazy label ends before the
\* first closing position q >= p + 2
LinkAt(s, p) == Ch(s, p) = "[" /\ \E q \in (p + 2)..Len(s) : LinkTailAt(s, q)

\* re.search(r'\[(.+?)\]\([^)]+\)', line): group 1 of the leftmost match,
\* as <<found, label>>
markdown_match(line) ==
    IF \E p \in 1..Len(line) : LinkAt(line, p)
    THEN LET p == CHOOSE p \in 1..Len(line) :
                    LinkAt(line, p) /\ \A h \in 1..(p - 1) : ~LinkAt(line, h)
             q == CHOOSE q \in (p + 2)..Len(line) :
                    LinkTailAt(line, q) /\ \A h \in (p + 2)..(q - 1) : ~LinkTailAt(line, h)
         IN << TRUE, Sub(line, p + 1, q - 1) >>
    ELSE << FALSE, "" >>

\* re.sub(r'\s*\[.*?\]\s*$', '', s): the leftmost match starts at the
\* whitespace run before the first '[' and runs to the end of s
StripTrailingBracket(s) ==
    LET e == LastNonSpace(s)
        k == Find(s, 1, "[")
    IN IF e >= 1 /\ Ch(s, e) = "]" /\ k # 0 /\ k < e
       THEN Sub(s, 1, RunStart(s, k) - 1)
       ELSE s

HasYear(s, a, b) == \E i \in a..(b - 3) : \A d \in 0..3 : IsDigit(Ch(s, i + d))

\* '(' at k opens \([^)]*\d{4}[^)]*\) closed by the ')' at e
YearParenAt(s, k, e) ==
    /\ Ch(s, k) = "("
    /\ \A m \in (k + 1)..(e - 1) : Ch(s, m) # ")"
    /\ HasYear(s, k + 1, e - 1)

\* re.sub(r'\s*\([^)]*\d{4}[^)]*\)\s*$', '', s)
StripTrailingYearParen(s) ==
    LET e == LastNonSpace(s) IN
    IF e >= 1 /\ Ch(s, e) = ")" /\ \E k \in 1..(e - 1) : YearParenAt(s, k, e)
    THEN LET k == CHOOSE k \in 1..(e - 1) :
                    YearParenAt(s, k, e) /\ \A h \in 1..(k - 1) : ~YearParenAt(s, h, e)
         IN Sub(s, 1, RunStart(s, k) - 1)
    ELSE s

\* re.sub(r'\*\*', '', s)
RECURSIVE RemoveBold(_)
RemoveBold(s) ==
    IF s = "" THEN ""
    ELSE IF Sub(s, 1, 2) = "**" THEN RemoveBold(Sub(s, 3, Len(s)))
    ELSE Ch(s, 1) \o RemoveBold(Sub(s, 2, Len(s)))

\* re.sub(r'\s+', ' ', s)
RECURSIVE NormalizeWhitespace(_)
NormalizeWhitespace(s) ==
    IF s = "" THEN ""
    ELSE IF IsSpace(Ch(s, 1))
         THEN " " \o NormalizeWhitespace(Sub(s, SkipSpaces(s, 1), Len(s)))
         ELSE Ch(s, 1) \o NormalizeWhitespace(Sub(s, 2, Len(s)))

\* variant: the markdown link is tried before the parenthetical-bracket form
extract_title_from_lineLinkFirst(raw) ==
    LET line == strip(raw)
        g1 == match(line)
        md == markdown_match(line)
        title == IF md[1] THEN strip(md[2])
                 ELSE IF g1 # 0 THEN strip(Sub(line, 1, g1))
                 ELSE strip(StripTrailingYearParen(strip(StripTrailingBracket(line))))
    IN strip(NormalizeWhitespace(RemoveBold(title)))

extract_title_from_line(raw) ==
    LET line == strip(raw)
        g1 == match(line)
        md == markdown_match(line)
        title == IF g1 # 0 THEN strip(Sub(line, 1, g1))
                 ELSE IF md[1] THEN strip(md[2])
                 ELSE strip(StripTrailingYearParen(strip(StripTrailingBracket(line))))
    IN strip(NormalizeWhitespace(RemoveBold(title)))

(***************************************************************************)
(* Final validation of parse_papers_from_main_readme (lines 195-198).      *)
(***************************************************************************)
BannedSubstrings ==
    { "readme", "back to top", "table of contents", "best papers",
      "best paper", "authors:", "venue:", "year:" }

MinTitleLen == 10

\* variant: the banned-substring test is left out
final_validationLengthOnly(title) == Len(title) > MinTitleLen

final_validation(title) ==
    /\ Len(title) > MinTitleLen
    /\ ~\E skip \in BannedSubstrings : contains(lower(title), skip)

(***************************************************************************)
(* Inputs.  A document is the text of a README, held as the non-empty      *)
(* sequence of its lines (content.split('\n')); the empty text is the      *)
(* sequence holding one empty line.                                        *)
(***************************************************************************)
HeaderLines ==
    { "#### CVPR", "## iclr 2024", "### Test of Time Papers",
      "#TEST  of\ttime paper ", "## Test-of-Time-Papers",
      "## Test of Time Papersx", "#CVPRX" }

PaperLines ==
    { "Awesome Detection Method (CVPR 2023) [Paper]",
      "[Great Paper Title](https://example.com/paper.pdf)",
      "  A Seminal Work on Vision (2015) [Paper]  ",
      "Short One (2020) [PDF]",
      "The README of Everything [Link]" }

OtherLines == { "", "Authors: Jane Doe, John Smith", "---", "Test of Time Award" }

ParseLines == HeaderLines \cup PaperLines \cup OtherLines

RepeatLines ==
    { "#### CVPR", "## iclr 2024",
      "Awesome Detection Method (CVPR 2023) [Paper]" }

PipeLines ==
    { "#### CVPR", "## iclr 2024",
      "Awesome Detection Method (CVPR 2023) [Paper]",
      "**Awesome  Detection: Method!** (ICLR 2024) [PDF]",
      "[Great Paper Title](https://example.com/paper.pdf)" }

AllLines == ParseLines \cup RepeatLines \cup PipeLines

SeqsUpTo(S, n) == UNION { [1..k -> S] : k \in 1..n }

Documents == SeqsUpTo(ParseLines, MaxLines)

RepeatDocuments == SeqsUpTo(RepeatLines, MaxRepeatLines)

PipeDocuments == SeqsUpTo(PipeLines, MaxPipeLines)

\* two headers and two paper lines, for longer documents
OrderLines ==
    { "#### CVPR", "## iclr 2024",
      "Awesome Detection Method (CVPR 2023) [Paper]",
      "[Great Paper Title](https://example.com/paper.pdf)" }

OrderDocuments == SeqsUpTo(OrderLines, MaxOrderLines)

\* content = None: no text at all
NoContent == << >>

\* no invocation has returned yet
NoResult == [ none |-> TRUE ]

\* `not content` (line 145, line 333): None or the empty string
IsEmptyContent(c) == c = NoContent \/ c = << "" >>

(***************************************************************************)
(* One iteration of the for loop of parse_papers_from_main_readme          *)
(* (lines 165-204), as a function of the loop's local state.               *)
(***************************************************************************)
\* what the loop body computes from one line, tabulated over the lines of
\* the model
LineFacts ==
    [ line \in AllLines |->
        LET line_stripped == strip(line)
            title == extract_title_from_line(line_stripped)
        IN [ header   |-> section_found(line_stripped),
             is_title |-> is_paper_title_line(line_stripped),
             title    |-> title,
             valid    |-> final_validation(title) ] ]

EmptySections == [ s \in SectionSet |-> << >> ]

\* variant: the test of current_section is left out
SectionIsSetAlways(cs) == TRUE

\* `current_section and ...` (line 191)
SectionIsSet(cs) == cs # None

\* variant: insert(0, ...) for append(...)
AppendRecordFront(secs, cs, rec) == [ secs EXCEPT ![cs] = << rec >> \o @ ]

\* variant: the sections share one list, as dict.fromkeys(names, []) makes them
AppendRecordShared(secs, cs, rec) == [ s \in DOMAIN secs |-> Append(secs[s], rec) ]

\* sections[current_section].append({...}) (lines 199-203)
AppendRecord(secs, cs, rec) == [ secs EXCEPT ![cs] = Append(@, rec) ]

\* st = [current_section, sections, raised]; raised records a KeyError of
\* sections[current_section]
ScanStep(st, line) ==
    LET f == LineFacts[line] IN
    IF f.header # None
    THEN [ st EXCEPT !.current_section = f.header ]
    ELSE IF SectionIsSet(st.current_section) /\ f.is_title /\ f.valid
    THEN IF st.current_section \in DOMAIN st.sections
         THEN [ st EXCEPT !.sections =
                    AppendRecord(@, st.current_section,
                                 [ title    |-> f.title,
                                   section  |-> st.current_section,
                                   raw_line |-> line ]) ]
         ELSE [ st EXCEPT !.raised = TRUE ]
    ELSE st


(***************************************************************************)
(* Pure helpers of process_papers.                                         *)
(***************************************************************************)
\* the whole for loop of parse_papers_from_main_readme over doc[i..]
RECURSIVE ScanAll(_, _, _)
ScanAll(st, doc, i) ==
    IF i > Len(doc) THEN st
    ELSE CHOOSE r \in { ScanAll(nxt, doc, i + 1) : nxt \in { ScanStep(st, doc[i]) } } : TRUE

\* parse_papers_from_main_readme(content), for the callers inside the class
parse_papers_from_main_readme(c) ==
    IF IsEmptyContent(c) THEN << >>
    ELSE ScanAll([ current_section |-> None, sections |-> EmptySections,
                   raised |-> FALSE ], c, 1).sections

\* re.sub(r'[^\w\s]', '', s)
RECURSIVE RemovePunctuation(_)
RemovePunctuation(s) ==
    IF s = "" THEN ""
    ELSE (IF IsWordCh(Ch(s, 1)) \/ IsSpace(Ch(s, 1)) THEN Ch(s, 1) ELSE "")
         \o RemovePunctuation(Sub(s, 2, Len(s)))

clean_title(title) == RemovePunctuation(strip(lower(title)))

\* hashlib.md5(...).hexdigest(): the digest is kept symbolic, one digest per
\* input text
md5(text) == "md5:" \o text

\* generate_paper_hash(title), authors=None as process_papers calls it
generate_paper_hash(title) == md5(clean_title(title))

InvalidFilenameChars == { "<", ">", ":", "\"", "/", "\\", "|", "?", "*" }

\* re.sub(r'[<>:"/\\|?*]', '', s)
RECURSIVE RemoveInvalid(_)
RemoveInvalid(s) ==
    IF s = "" THEN ""
    ELSE (IF Ch(s, 1) \in InvalidFilenameChars THEN "" ELSE Ch(s, 1))
         \o RemoveInvalid(Sub(s, 2, Len(s)))

\* variant: r'\s' for r'\s+', one underscore per whitespace character
RECURSIVE SpacesToUnderscoreEach(_)
SpacesToUnderscoreEach(s) ==
    IF s = "" THEN ""
    ELSE (IF IsSpace(Ch(s, 1)) THEN "_" ELSE Ch(s, 1))
         \o SpacesToUnderscoreEach(Sub(s, 2, Len(s)))

\* re.sub(r'\s+', '_', s)
RECURSIVE SpacesToUnderscore(_)
SpacesToUnderscore(s) ==
    IF s = "" THEN ""
    ELSE IF IsSpace(Ch(s, 1))
         THEN "_" \o SpacesToUnderscore(Sub(s, SkipSpaces(s, 1), Len(s)))
         ELSE Ch(s, 1) \o SpacesToUnderscore(Sub(s, 2, Len(s)))

\* .replace('\n', ' ').replace('\r', ' ') (line 312)
RECURSIVE ReplaceNewlines(_)
ReplaceNewlines(s) ==
    IF s = "" THEN ""
    ELSE (IF Ch(s, 1) \in {"\n", "\r"} THEN " " ELSE Ch(s, 1))
         \o ReplaceNewlines(Sub(s, 2, Len(s)))

MaxFilenameTitle == 80

sanitize_filename(title, section) ==
    LET safe == SpacesToUnderscore(strip(ReplaceNewlines(RemoveInvalid(title))))
        cut == IF Len(safe) > MaxFilenameTitle THEN Sub(safe, 1, MaxFilenameTitle) ELSE safe
    IN (IF section # "" THEN section \o "_" \o cut ELSE cut) \o ".pdf"

\* what process_papers derives from a title, tabulated over the titles the
\* model's lines yield
TitleFacts ==
    [ t \in { LineFacts[l].title : l \in AllLines } |->
        [ hash     |-> generate_paper_hash(t),
          filename |-> [ sec \in SectionSet |-> sanitize_filename(t, sec) ] ] ]

\* all_papers (lines 344-349): the sequences of the sections, in key order
RECURSIVE all_papers(_, _)
all_papers(sections_papers, i) ==
    IF i > Len(SectionNames) \/ DOMAIN sections_papers = {} THEN << >>
    ELSE sections_papers[SectionNames[i]] \o all_papers(sections_papers, i + 1)

HashIn(h, uniq) == \E k \in 1..Len(uniq) : uniq[k][1] = h

\* variant: no `not in` test, a later record replaces the stored one
RECURSIVE RemoveDuplicatesKeepLast(_, _, _)
RemoveDuplicatesKeepLast(papers, i, uniq) ==
    IF i > Len(papers) THEN uniq
    ELSE CHOOSE r \in
            { RemoveDuplicatesKeepLast(papers, i + 1,
                IF ~HashIn(paper_hash, uniq)
                THEN Append(uniq, << paper_hash, papers[i] >>)
                ELSE [ k \in 1..Len(uniq) |->
                        IF uniq[k][1] = paper_hash
                        THEN << paper_hash, papers[i] >> ELSE uniq[k] ]) :
              paper_hash \in { TitleFacts[papers[i].title].hash } } : TRUE

\* lines 362-365: self.unique_papers as the sequence of its items
RECURSIVE RemoveDuplicates(_, _, _)
RemoveDuplicates(papers, i, uniq) ==
    IF i > Len(papers) THEN uniq
    ELSE CHOOSE r \in
            { RemoveDuplicates(papers, i + 1,
                IF ~HashIn(paper_hash, uniq)
                THEN Append(uniq, << paper_hash, papers[i] >>)
                ELSE uniq) :
              paper_hash \in { TitleFacts[papers[i].title].hash } } : TRUE

\* file_size > 1000 (line 290)
MinFileSize == 1000

FileSizes == { 1000, 1001 }

WrittenSizes == { 0 } \cup FileSizes

PdfUrl == "https://example.org/paper.pdf"

\* the values search_semantic_scholar can return (lines 230-242)
SemanticScholarResults ==
    { [ found |-> TRUE, pdf_url |-> PdfUrl, source |-> "semantic_scholar" ],
      [ found |-> TRUE, pdf_url |-> None, source |-> "semantic_scholar" ],
      [ found |-> FALSE, pdf_url |-> None, source |-> "semantic_scholar" ] }

\* the values search_arxiv can return (lines 268-280)
ArxivResults ==
    { [ found |-> TRUE, pdf_url |-> PdfUrl, source |-> "arxiv" ],
      [ found |-> FALSE, pdf_url |-> None, source |-> "arxiv" ] }

NoSearchResult == [ found |-> FALSE, pdf_url |-> None, source |-> None ]

ZeroCounts == [ total |-> 0, downloaded |-> 0, already_existed |-> 0, failed |-> 0 ]

\* self.stats after __init__ (lines 23-30)
InitialStats ==
    [ total_papers |-> 0, unique_papers |-> 0, downloaded |-> 0,
      already_existed |-> 0, failed |-> 0,
      sections |-> [ sec \in SectionSet |-> ZeroCounts ] ]

\* the download directory before the run: empty, or holding one file under
\* a name the run may derive
PipeFileNames ==
    { sanitize_filename(LineFacts[l].title, sec) :
        l \in { x \in PipeLines : LineFacts[x].is_title }, sec \in {"CVPR", "ICLR"} }

InitialFiles ==
    { << >> } \cup { (n :> sz) : n \in PipeFileNames, sz \in FileSizes }

(***************************************************************************)
(* Inputs of the functions that are checked on their own.                  *)
(***************************************************************************)
RECURSIVE Concat(_)
Concat(parts) == IF parts = << >> THEN "" ELSE Head(parts) \o Concat(Tail(parts))

TitleParts ==
    { "Deep", " ", " \t\n", ": ", "Nets-2!?",
      "ABCDEFGHIJKLMNOPQRSTUVWXYZabcdefghijklmn" }

\* the (title, section) pairs sanitize_filename is applied to
SanitizeInputs ==
    { << Concat(parts), sec >> :
        parts \in SeqsUpTo(TitleParts, MaxTitleParts), sec \in {"", "CVPR"} }

SanitizeTable == [ a \in SanitizeInputs |-> sanitize_filename(a[1], a[2]) ]

LineParts ==
    { "Great Title", " (CVPR 2023)", " [Paper]", " [Nice Label](http://x)",
      "**", "  ", " (oral)" }

\* the lines extract_title_from_line is applied to
ExtractInputs ==
    { << Concat(parts) >> : parts \in SeqsUpTo(LineParts, MaxLineParts) }
    \cup { << "Awesome Detection Method (CVPR 2023) [Paper]" >>,
           << "[Great Paper Title](https://example.com/paper.pdf)" >> }

ExtractTable == [ a \in ExtractInputs |-> extract_title_from_line(a[1]) ]

(***************************************************************************)
(* State.                                                                  *)
(***************************************************************************)
VARIABLES
    pc,               \* position in parse_papers_from_main_readme
    content,          \* its argument
    idx,              \* number of lines of content the for loop has consumed
    current_section,  \* local of the invocation
    sections,         \* local of the invocation
    result,           \* the value the last finished invocation returned
    calls,            \* number of invocations started
    returned,         \* <<content, result>> of the finished invocations, in order
    ppc,              \* position in process_papers
    readme,           \* content, local of process_papers
    stats,            \* self.stats
    unique_papers,    \* self.unique_papers, as the sequence of its items
    paper_i,          \* index of the download loop in unique_papers
    search_result,    \* result, local of the download loop
    downloaded_papers, \* self.downloaded_papers
    failed_papers,    \* self.failed_papers
    files,            \* downloaded_papers/: file name -> size in bytes
    requests,         \* the network requests made so far, in order
    fn_pc,            \* position of a direct call of one of the helper methods
    fn_name,          \* the method called
    fn_args,          \* its arguments
    fn_ret            \* the value it returned

parserVars ==
    << pc, content, idx, current_section, sections, result, calls, returned >>

pipeVars ==
    << ppc, readme, stats, unique_papers, paper_i, search_result,
       downloaded_papers, failed_papers, files, requests >>

fnVars == << fn_pc, fn_name, fn_args, fn_ret >>

vars == << parserVars, pipeVars, fnVars >>

InitParser ==
    /\ pc = "idle"
    /\ content = NoContent
    /\ idx = 0
    /\ current_section = None
    /\ sections = << >>
    /\ result = NoResult
    /\ calls = 0
    /\ returned = << >>

\* PaperDownloader.__init__ (lines 15-38) with the download directory
\* holding fs
InitPipe(fs) ==
    /\ ppc = "start"
    /\ readme = NoContent
    /\ stats = InitialStats
    /\ unique_papers = << >>
    /\ paper_i = 0
    /\ search_result = NoSearchResult
    /\ downloaded_papers = << >>
    /\ failed_papers = << >>
    /\ files = fs
    /\ requests = << >>

\* no helper method is being called directly
InitFn ==
    /\ fn_pc = "idle"
    /\ fn_name = None
    /\ fn_args = << >>
    /\ fn_ret = ""

Init == InitParser /\ InitPipe(<< >>) /\ InitFn

InitPipeline == InitParser /\ InitFn /\ \E fs \in InitialFiles : InitPipe(fs)

\* a helper method has been called with arguments drawn from its inputs
InitHelpers ==
    /\ InitParser /\ InitPipe(<< >>)
    /\ fn_pc = "called"
    /\ fn_ret = ""
    /\ \/ fn_name = "sanitize_filename" /\ fn_args \in SanitizeInputs
       \/ fn_name = "extract_title_from_line" /\ fn_args \in ExtractInputs

\* variant: the scan starts inside the first configured section
InitialSectionDefault == SectionNames[1]

\* variant: current_section is kept on the object and survives the call
InitialSectionStale == current_section

\* current_section = None (line 162)
InitialSection == None

\* a caller passes content to parse_papers_from_main_readme
Call(docs, maxCalls) ==
    /\ pc \in {"idle", "returned"}
    /\ calls < maxCalls
    /\ \E c \in docs \cup {NoContent} :
        /\ content' = c
        /\ pc' = "entered"
    /\ calls' = calls + 1
    /\ UNCHANGED << idx, current_section, sections, result, returned >>
    /\ UNCHANGED << pipeVars, fnVars >>

CallOnce == Call(Documents, 1)

CallRepeat == Call(RepeatDocuments, MaxInvocations)

\* if not content: return {}  (lines 145-146)
ReturnEmpty ==
    /\ pc = "entered"
    /\ IsEmptyContent(content)
    /\ result' = << >>
    /\ returned' = Append(returned, << content, << >> >>)
    /\ pc' = "returned"
    /\ UNCHANGED << content, idx, current_section, sections, calls >>
    /\ UNCHANGED << pipeVars, fnVars >>

\* lines 148-163: the fresh sections dictionary, current_section, lines
StartScan ==
    /\ pc = "entered"
    /\ ~IsEmptyContent(content)
    /\ sections' = EmptySections
    /\ current_section' = InitialSection
    /\ idx' = 0
    /\ pc' = "scanning"
    /\ UNCHANGED << content, result, calls, returned >>
    /\ UNCHANGED << pipeVars, fnVars >>

\* one iteration of `for line in lines` (lines 165-204)
ScanLine ==
    /\ pc = "scanning"
    /\ idx < Len(content)
    /\ LET st == ScanStep([ current_section |-> current_section,
                            sections |-> sections,
                            raised |-> FALSE ], content[idx + 1])
       IN /\ current_section' = st.current_section
          /\ sections' = st.sections
          /\ pc' = IF st.raised THEN "raised" ELSE "scanning"
    /\ idx' = idx + 1
    /\ UNCHANGED << content, result, calls, returned >>
    /\ UNCHANGED << pipeVars, fnVars >>

\* return sections (line 206)
ReturnSections ==
    /\ pc = "scanning"
    /\ idx = Len(content)
    /\ result' = sections
    /\ returned' = Append(returned, << content, sections >>)
    /\ pc' = "returned"
    /\ UNCHANGED << content, idx, current_section, sections, calls >>
    /\ UNCHANGED << pipeVars, fnVars >>

ParserStep == ReturnEmpty \/ StartScan \/ ScanLine \/ ReturnSections

Next == CallOnce \/ ReturnEmpty \/ StartScan \/ ScanLine \/ ReturnSections

Spec == Init /\ [][Next]_vars

CallOrder == Call(OrderDocuments, 1)

NextOrder == CallOrder \/ ReturnEmpty \/ StartScan \/ ScanLine \/ ReturnSections

SpecOrder == Init /\ [][NextOrder]_vars

NextRepeat == CallRepeat \/ ReturnEmpty \/ StartScan \/ ScanLine \/ ReturnSections

SpecRepeat == Init /\ [][NextRepeat]_vars

(***************************************************************************)
(* process_papers (lines 325-453).                                         *)
(***************************************************************************)
\* stats[field] += 1 and stats['sections'][section][field] += 1
\* variant: only the per-section counter is incremented
CountSectionOnly(st, section, field) ==
    [ st EXCEPT !.sections[section][field] = @ + 1 ]

Count(st, section, field) ==
    [ st EXCEPT ![field] = @ + 1, !.sections[section][field] = @ + 1 ]

\* lines 343-352: the per-section totals and total_papers
CountSections(st, sections_papers, n) ==
    [ st EXCEPT
        !.total_papers = @ + n,
        !.sections = [ sec \in SectionSet |->
            IF Len(sections_papers[sec]) > 0
            THEN [ @[sec] EXCEPT !.total = Len(sections_papers[sec]) ]
            ELSE @[sec] ] ]

\* lines 332-335: fetch_main_readme returns a text or None
FetchReadme ==
    /\ ppc = "start"
    /\ \E c \in PipeDocuments \cup {NoContent, << "" >>} :
        /\ readme' = c
        /\ ppc' = IF IsEmptyContent(c) THEN "exit" ELSE "fetched"
        /\ requests' = Append(requests, [ service |-> "github", arg |-> "README.md" ])
    /\ UNCHANGED << stats, unique_papers, paper_i, search_result,
                    downloaded_papers, failed_papers, files >>
    /\ UNCHANGED << parserVars, fnVars >>

\* lines 341-367: parse, count per section, remove duplicates
ParseAndDeduplicate ==
    /\ ppc = "fetched"
    /\ \E sections_papers \in { parse_papers_from_main_readme(readme) } :
       \E papers \in { all_papers(sections_papers, 1) } :
       \E counted \in { CountSections(stats, sections_papers, Len(papers)) } :
            IF Len(papers) = 0
            THEN /\ stats' = counted
                 /\ ppc' = "exit"
                 /\ UNCHANGED << unique_papers, paper_i >>
            ELSE \E uniq \in { RemoveDuplicates(papers, 1, unique_papers) } :
                 /\ unique_papers' = uniq
                 /\ stats' = [ counted EXCEPT !.unique_papers = Len(uniq) ]
                 /\ paper_i' = 1
                 /\ ppc' = "loop"
    /\ UNCHANGED << readme, search_result, downloaded_papers, failed_papers,
                    files, requests >>
    /\ UNCHANGED << parserVars, fnVars >>

CurrentPaper == unique_papers[paper_i][2]

\* line 382: result = self.search_semantic_scholar(title)
SearchSemanticScholar ==
    /\ ppc = "loop"
    /\ paper_i <= Len(unique_papers)
    /\ \E r \in SemanticScholarResults : search_result' = r
    /\ requests' = Append(requests,
            [ service |-> "semantic_scholar", arg |-> CurrentPaper.title ])
    /\ ppc' = "searched"
    /\ UNCHANGED << readme, stats, unique_papers, paper_i, downloaded_papers,
                    failed_papers, files >>
    /\ UNCHANGED << parserVars, fnVars >>

\* variant: the fallback is also taken when the primary found no pdf_url
NeedsFallbackNoPdf(r) == ~(r.found /\ r.pdf_url # None)

\* if not result['found'] (line 385)
NeedsFallback(r) == ~r.found

\* lines 385-387: if not result['found']: result = self.search_arxiv(title)
SearchArxiv ==
    /\ ppc = "searched"
    /\ NeedsFallback(search_result)
    /\ \E r \in ArxivResults : search_result' = r
    /\ requests' = Append(requests, [ service |-> "arxiv", arg |-> CurrentPaper.title ])
    /\ ppc' = "resolved"
    /\ UNCHANGED << readme, stats, unique_papers, paper_i, downloaded_papers,
                    failed_papers, files >>
    /\ UNCHANGED << parserVars, fnVars >>

\* the searches of this iteration are over (line 389 is reached)
Resolved == ppc = "resolved" \/ (ppc = "searched" /\ ~NeedsFallback(search_result))

\* variant: download_pdf without the existence check
AlreadyExistsIgnored(fs, filename) == FALSE

\* os.path.exists(filepath) and os.path.getsize(filepath) > 1000 (lines 288-290)
AlreadyExists(fs, filename) ==
    filename \in DOMAIN fs /\ fs[filename] > MinFileSize

WriteFile(fs, filename, sz) ==
    [ n \in DOMAIN fs \cup {filename} |-> IF n = filename THEN sz ELSE fs[n] ]

\* lines 389-435: the PDF was resolved; download_pdf and the bookkeeping of
\* its three outcomes
Download ==
    /\ Resolved
    /\ search_result.found /\ search_result.pdf_url # None
    /\ LET title == CurrentPaper.title
           section == CurrentPaper.section
           filename == TitleFacts[title].filename[section]
           entry(status) ==
               [ title |-> title, section |-> section, filename |-> filename,
                 source |-> search_result.source, status |-> status ]
           failure ==
               [ title |-> title, section |-> section, reason |-> "Download failed",
                 pdf_url |-> search_result.pdf_url, source |-> search_result.source ]
           get == [ service |-> "download", arg |-> filename ]
       IN \/ \* lines 288-292 and 394-407: the file is there, nothing is fetched
             /\ AlreadyExists(files, filename)
             /\ stats' = Count(stats, section, "already_existed")
             /\ downloaded_papers' = Append(downloaded_papers, entry("Already Existed"))
             /\ UNCHANGED << failed_papers, files, requests >>
          \/ \* lines 295-302 and 408-421: the response is written to the file
             /\ ~AlreadyExists(files, filename)
             /\ \E sz \in WrittenSizes : files' = WriteFile(files, filename, sz)
             /\ requests' = Append(requests, get)
             /\ stats' = Count(stats, section, "downloaded")
             /\ downloaded_papers' = Append(downloaded_papers, entry("Downloaded"))
             /\ UNCHANGED failed_papers
          \/ \* lines 295-296, 304-306 and 422-435: the request fails
             /\ ~AlreadyExists(files, filename)
             /\ requests' = Append(requests, get)
             /\ stats' = Count(stats, section, "failed")
             /\ failed_papers' = Append(failed_papers, failure)
             /\ UNCHANGED << downloaded_papers, files >>
          \/ \* lines 298-300, 304-306 and 422-435: the stream breaks after
             \* the file was opened for writing
             /\ ~AlreadyExists(files, filename)
             /\ \E sz \in WrittenSizes : files' = WriteFile(files, filename, sz)
             /\ requests' = Append(requests, get)
             /\ stats' = Count(stats, section, "failed")
             /\ failed_papers' = Append(failed_papers, failure)
             /\ UNCHANGED downloaded_papers
    /\ paper_i' = paper_i + 1
    /\ search_result' = NoSearchResult
    /\ ppc' = "loop"
    /\ UNCHANGED << readme, unique_papers >>
    /\ UNCHANGED << parserVars, fnVars >>

\* lines 436-449: no service gave a PDF url
PdfNotFound ==
    /\ Resolved
    /\ ~(search_result.found /\ search_result.pdf_url # None)
    /\ stats' = Count(stats, CurrentPaper.section, "failed")
    /\ failed_papers' = Append(failed_papers,
            [ title |-> CurrentPaper.title, section |-> CurrentPaper.section,
              reason |-> "PDF not found", pdf_url |-> "",
              source |-> search_result.source ])
    /\ paper_i' = paper_i + 1
    /\ search_result' = NoSearchResult
    /\ ppc' = "loop"
    /\ UNCHANGED << readme, unique_papers, downloaded_papers, files, requests >>
    /\ UNCHANGED << parserVars, fnVars >>

\* lines 451-453: the loop is over, the reports are written
GenerateReports ==
    /\ ppc = "loop"
    /\ paper_i > Len(unique_papers)
    /\ ppc' = "done"
    /\ UNCHANGED << readme, stats, unique_papers, paper_i, search_result,
                    downloaded_papers, failed_papers, files, requests >>
    /\ UNCHANGED << parserVars, fnVars >>

NextPipeline ==
    \/ FetchReadme
    \/ ParseAndDeduplicate
    \/ SearchSemanticScholar
    \/ SearchArxiv
    \/ Download
    \/ PdfNotFound
    \/ GenerateReports

SpecPipeline == InitPipeline /\ [][NextPipeline]_vars


(***************************************************************************)
(* Direct calls of the helper methods.                                     *)
(***************************************************************************)
\* sanitize_filename(title, section) runs and returns (lines 308-323)
ApplySanitizeFilename ==
    /\ fn_pc = "called"
    /\ fn_name = "sanitize_filename"
    /\ fn_ret' = SanitizeTable[fn_args]
    /\ fn_pc' = "returned"
    /\ UNCHANGED << fn_name, fn_args, parserVars, pipeVars >>

\* extract_title_from_line(line) runs and returns (lines 117-141)
ApplyExtractTitle ==
    /\ fn_pc = "called"
    /\ fn_name = "extract_title_from_line"
    /\ fn_ret' = ExtractTable[fn_args]
    /\ fn_pc' = "returned"
    /\ UNCHANGED << fn_name, fn_args, parserVars, pipeVars >>

NextHelpers ==
    \/ ApplySanitizeFilename
    \/ ApplyExtractTitle

SpecHelpers == InitHelpers /\ [][NextHelpers]_vars

\* the interpreter runs a started invocation to its return: no step of the
\* function waits on anything
FairSpec == Spec /\ WF_vars(ParserStep)

(***************************************************************************)
(* Properties of the parser.                                               *)
(***************************************************************************)
RECURSIVE SumLen(_, _)
SumLen(f, S) ==
    IF S = {} THEN 0
    ELSE LET x == CHOOSE x \in S : TRUE IN Len(f[x]) + SumLen(f, S \ {x})

\* total number of records of a mapping from section names to sequences
TotalRecords(m) == SumLen(m, DOMAIN m)

\* the section named by the last recognized header line among the first i
\* lines of doc, None when there is none
RECURSIVE NearestHeader(_, _)
NearestHeader(doc, i) ==
    IF i = 0 THEN None
    ELSE IF LineFacts[doc[i]].header # None THEN LineFacts[doc[i]].header
    ELSE NearestHeader(doc, i - 1)

Finished == pc = "returned"

InScan == pc \in {"scanning", "returned"} /\ ~IsEmptyContent(content)

\* C1: whenever parse_papers_from_main_readme returns, for every document
\* (the empty one included), the key set of the returned mapping is exactly
\* the configured section names.
C1_AllSectionsPresent == Finished => DOMAIN result = SectionSet

\* C2: the total number of records over all sections equals the number of
\* lines classified as paper title lines while some section is active.
C2_CountEqualsTitleLines ==
    Finished =>
        TotalRecords(result) =
            Cardinality({ i \in 1..Len(content) :
                /\ LineFacts[content[i]].is_title
                /\ NearestHeader(content, i - 1) # None })

\* C2 as amended: the total number of records equals the number of lines
\* classified as paper title lines while some section is active whose
\* extracted title also passes the final validation.
C2_CountEqualsValidTitleLines ==
    /\ InScan =>
            TotalRecords(sections) =
                Cardinality({ i \in 1..idx :
                    /\ LineFacts[content[i]].is_title
                    /\ LineFacts[content[i]].valid
                    /\ NearestHeader(content, i - 1) # None })
    /\ Finished =>
            TotalRecords(result) =
                Cardinality({ i \in 1..Len(content) :
                    /\ LineFacts[content[i]].is_title
                    /\ LineFacts[content[i]].valid
                    /\ NearestHeader(content, i - 1) # None })

C2_Witness ==
    /\ Finished
    /\ TotalRecords(result) = 1
    /\ \E i \in 1..Len(content) :
        /\ LineFacts[content[i]].is_title
        /\ ~LineFacts[content[i]].valid
        /\ NearestHeader(content, i - 1) # None

\* C3 (state part): the active section is the one of the nearest preceding
\* recognized header, every record under key S carries section S, and
\* nothing is recorded before the first recognized header.
C3_StateInv ==
    InScan =>
        /\ current_section = NearestHeader(content, idx)
        /\ \A S \in DOMAIN sections : \A k \in 1..Len(sections[S]) :
                sections[S][k].section = S
        /\ (NearestHeader(content, idx) = None => TotalRecords(sections) = 0)

\* C3 (step part): a line changes at most one section's sequence, the one
\* of the nearest preceding recognized header, by appending one record made
\* from that line.
C3_StepInv ==
    (pc = "scanning" /\ idx' = idx + 1) =>
        \A S \in SectionSet :
            sections'[S] # sections[S] =>
                /\ S = NearestHeader(content, idx)
                /\ Len(sections'[S]) = Len(sections[S]) + 1
                /\ SubSeq(sections'[S], 1, Len(sections[S])) = sections[S]
                /\ sections'[S][Len(sections'[S])].section = S
                /\ sections'[S][Len(sections'[S])].raw_line = content[idx + 1]
                /\ \A T \in SectionSet \ {S} : sections'[T] = sections[T]

\* C3: at most one section is active; every record stored under key S has
\* section field S and comes from a line whose nearest preceding recognized
\* header is a header of S; lines before the first header produce no record
\* and no line produces records in two sections.
C3_Attribution == [](C3_StateInv) /\ [][C3_StepInv]_vars

C3_Witness ==
    /\ Finished
    /\ Len(content) = 3
    /\ LineFacts[content[1]].is_title /\ LineFacts[content[1]].valid
    /\ LineFacts[content[2]].header = "ICLR"
    /\ DOMAIN result = SectionSet
    /\ TotalRecords(result) = 1
    /\ Len(result["ICLR"]) = 1
    /\ result["ICLR"][1].raw_line = content[3]

\* the titles the model's lines can yield that meet the acceptance rule of
\* the final validation, written out
C4_AcceptableTitles ==
    { t \in { LineFacts[l].title : l \in AllLines } :
        /\ Len(t) > 10
        /\ \A b \in { "readme", "back to top", "table of contents",
                      "best papers", "best paper", "authors:", "venue:",
                      "year:" } : ~contains(lower(t), b) }

C4_StateInv ==
    InScan => \A S \in DOMAIN sections : \A k \in 1..Len(sections[S]) :
                    sections[S][k].title \in C4_AcceptableTitles

C4_StepInv ==
    ( /\ pc = "scanning" /\ idx' = idx + 1
      /\ LineFacts[content[idx + 1]].is_title
      /\ LineFacts[content[idx + 1]].title \notin C4_AcceptableTitles )
    => /\ sections' = sections
       /\ current_section' = current_section
       /\ pc' = "scanning"

\* C4: every record has a title longer than 10 characters whose lowercased
\* form contains no banned substring; a candidate failing the check is
\* dropped without changing current_section or any section's sequence.
C4_TitlesValidated == [](C4_StateInv) /\ [][C4_StepInv]_vars

C4_Witness ==
    /\ Finished
    /\ TotalRecords(result) = 1
    /\ \E i \in 2..Len(content) :
        /\ NearestHeader(content, i - 1) # None
        /\ LineFacts[content[i]].is_title
        /\ contains(lower(LineFacts[content[i]].title), "readme")

\* the text of a header line after its '#' markers, lowercased, whitespace
\* runs collapsed
HeaderText(l) ==
    LET t == strip(l) IN
    IF AfterHashes(t) = 0 THEN ""
    ELSE lower(NormalizeWhitespace(strip(Sub(t, AfterHashes(t), Len(t)))))

\* header lines whose text is the phrase "test of time paper(s)", followed
\* by whitespace or the end of the line
C5_PhraseHeaders ==
    { l \in AllLines :
        \E ph \in { "test of time paper", "test of time papers" } :
            HeaderText(l) = ph \/ startswith(HeaderText(l), ph \o " ") }

\* header lines whose text is the configured key string
C5_KeyHeaders ==
    { l \in AllLines : HeaderText(l) = "test-of-time-papers" }

C5_StepInv ==
    (pc = "scanning" /\ idx' = idx + 1) =>
        /\ content[idx + 1] \in C5_PhraseHeaders =>
                current_section' = "Test-of-Time-Papers"
        /\ content[idx + 1] \in C5_KeyHeaders =>
                current_section' = current_section
        /\ ( /\ idx >= 1
             /\ content[idx] \in C5_PhraseHeaders
             /\ content[idx + 1] \in PaperLines
             /\ LineFacts[content[idx + 1]].title \in C4_AcceptableTitles )
           => /\ Len(sections'["Test-of-Time-Papers"]) =
                    Len(sections["Test-of-Time-Papers"]) + 1
              /\ \A T \in SectionSet \ {"Test-of-Time-Papers"} :
                    sections'[T] = sections[T]

\* C5: a header whose text is the phrase "test of time paper(s)" opens the
\* Test-of-Time-Papers section and the accepted lines that follow are stored
\* under that key; a header made of the key string "Test-of-Time-Papers"
\* does not open it.
C5_TestOfTimeByPhrase == [][C5_StepInv]_vars

C5_Witness ==
    /\ Finished
    /\ Len(content) = 3
    /\ content[1] \in C5_KeyHeaders
    /\ content[2] \in C5_PhraseHeaders
    /\ DOMAIN result = SectionSet
    /\ Len(result["Test-of-Time-Papers"]) = 1
    /\ result["Test-of-Time-Papers"][1].title = "A Seminal Work on Vision"

\* C6: two invocations on the same document return equal results, whatever
\* invocations happened before or in between.
C6_Deterministic ==
    \A i, j \in 1..Len(returned) :
        returned[i][1] = returned[j][1] => returned[i][2] = returned[j][2]

C6_Witness ==
    /\ Len(returned) = 3
    /\ returned[1][1] = returned[3][1]
    /\ returned[2][1] # returned[1][1]
    /\ TotalRecords(returned[2][2]) > 0
    /\ TotalRecords(returned[3][2]) = 0
    /\ ~IsEmptyContent(returned[3][1])

\* C7: every invocation, on any document, terminates by returning a result,
\* and no line puts the parser in an error state.
C7_AlwaysReturns == ((pc = "entered") ~> (pc = "returned")) /\ [](pc # "raised")

C7_Witness ==
    /\ Finished
    /\ Len(content) = 3
    /\ content[1] = "#CVPRX"
    /\ content[2] = "---"
    /\ ~LineFacts[content[3]].is_title
    /\ LineFacts[content[3]].header = None
    /\ TotalRecords(result) = 0

(***************************************************************************)
(* Properties of process_papers.                                           *)
(***************************************************************************)
\* the records process_papers collects from a fetched text, in the order of
\* all_papers
PapersOf ==
    [ d \in PipeDocuments |-> all_papers(parse_papers_from_main_readme(d), 1) ]

InLoop == ppc \in {"loop", "searched", "resolved", "done"}

\* positions of all_papers holding the first record of their fingerprint
FirstSeen(P) ==
    { i \in 1..Len(P) :
        \A j \in 1..(i - 1) : TitleFacts[P[j].title].hash # TitleFacts[P[i].title].hash }

\* the k-th smallest element of a set of positions
Kth(I, k) == CHOOSE i \in I : Cardinality({ j \in I : j <= i }) = k

SearchesOf(service) == SelectSeq(requests, LAMBDA q : q.service = service)

\* C8: deduplication keeps, for each fingerprint, exactly the first record
\* seen with it, and the unique records are processed in the order in which
\* their fingerprints were first seen.
C8_FirstSeenKept ==
    InLoop =>
        LET P == PapersOf[readme]
            I == FirstSeen(P)
            primary == SearchesOf("semantic_scholar")
        IN /\ Len(unique_papers) = Cardinality(I)
           /\ \A k \in 1..Len(unique_papers) :
                /\ unique_papers[k][2] = P[Kth(I, k)]
                /\ unique_papers[k][1] = TitleFacts[P[Kth(I, k)].title].hash
           /\ Len(primary) <= Len(unique_papers)
           /\ \A k \in 1..Len(primary) : primary[k].arg = unique_papers[k][2].title
           /\ (ppc = "done" => Len(primary) = Len(unique_papers))

C8_Witness ==
    /\ ppc = "done"
    /\ Len(PapersOf[readme]) = 2
    /\ PapersOf[readme][1].title # PapersOf[readme][2].title
    /\ Len(unique_papers) = 1
    /\ unique_papers[1][2].title = "Awesome Detection: Method!"

C9_StateInv ==
    \A k \in 1..Len(requests) :
        requests[k].service = "arxiv" =>
            /\ k > 1
            /\ requests[k - 1].service = "semantic_scholar"
            /\ requests[k - 1].arg = requests[k].arg

C9_StepInv ==
    /\ \* the secondary is queried only after the primary reported found = false
       (Len(requests') > Len(requests) /\ requests'[Len(requests')].service = "arxiv")
       => /\ search_result.source = "semantic_scholar"
          /\ search_result.found = FALSE
    /\ \* a record is not settled on a primary answer of found = false
       (InLoop /\ paper_i' = paper_i + 1 /\ search_result.source = "semantic_scholar")
       => search_result.found = TRUE
    /\ \* the first request for a record goes to the primary
       (ppc = "loop" /\ Len(requests') > Len(requests))
       => requests'[Len(requests')].service = "semantic_scholar"
    /\ \* 'PDF not found' only on a last answer without a found pdf_url
       ( /\ Len(failed_papers') > Len(failed_papers)
         /\ failed_papers'[Len(failed_papers')].reason = "PDF not found" )
       => /\ ~(search_result.found /\ search_result.pdf_url # None)
          /\ search_result.source = requests[Len(requests)].service
          /\ requests[Len(requests)].arg = failed_papers'[Len(failed_papers')].title

\* C9: for each unique record the primary service is queried first and the
\* secondary if and only if the primary reports found = false; a record
\* fails with 'PDF not found' only when the last service queried gave no
\* found result with a pdf_url.
C9_FallbackOrder == [](C9_StateInv) /\ [][C9_StepInv]_vars

C9_Witness ==
    /\ ppc = "done"
    /\ Len(unique_papers) = 2
    /\ Len(SearchesOf("arxiv")) = 1
    /\ Len(SearchesOf("semantic_scholar")) = 2
    /\ Len(failed_papers) = 2
    /\ failed_papers[1].reason = "PDF not found" /\ failed_papers[1].source = "semantic_scholar"
    /\ failed_papers[2].reason = "PDF not found" /\ failed_papers[2].source = "arxiv"

\* the destination path of the record the loop is at
C10_Destination ==
    TitleFacts[unique_papers[paper_i][2].title].filename[unique_papers[paper_i][2].section]

C10_StepInv ==
    /\ \* the existing file short-cuts the download of the record
       ( /\ ppc \in {"searched", "resolved"} /\ paper_i' = paper_i + 1
         /\ search_result.found /\ search_result.pdf_url # None
         /\ C10_Destination \in DOMAIN files
         /\ files[C10_Destination] > 1000 )
       => /\ requests' = requests
          /\ files' = files
          /\ stats'.already_existed = stats.already_existed + 1
          /\ stats'.downloaded = stats.downloaded
          /\ stats'.failed = stats.failed
          /\ failed_papers' = failed_papers
          /\ Len(downloaded_papers') = Len(downloaded_papers) + 1
          /\ downloaded_papers'[Len(downloaded_papers')].status = "Already Existed"
          /\ downloaded_papers'[Len(downloaded_papers')].filename = C10_Destination
    /\ \* no step rewrites or fetches a file of more than 1000 bytes
       \A n \in DOMAIN files :
            files[n] > 1000 =>
                /\ n \in DOMAIN files' /\ files'[n] = files[n]
                /\ ( Len(requests') > Len(requests)
                     => requests'[Len(requests')] # [ service |-> "download", arg |-> n ] )

\* C10: when a file of more than 1000 bytes exists at the destination path
\* the download makes no network request, leaves the file unchanged and the
\* record is counted as already_existed, not as downloaded; such a file is
\* never downloaded again.
C10_ExistingFileSkipped == [][C10_StepInv]_vars

C10_Witness ==
    /\ ppc = "done"
    /\ stats.already_existed = 1
    /\ stats.downloaded = 0
    /\ stats.failed = 0
    /\ Len(SearchesOf("download")) = 0
    /\ Len(downloaded_papers) = 1
    /\ downloaded_papers[1].filename \in DOMAIN files
    /\ files[downloaded_papers[1].filename] = 1001

(***************************************************************************)
(* Properties of sanitize_filename.                                        *)
(***************************************************************************)
IsAlnum(c) == IsDigit(c) \/ \E i \in 1..26 : c = Ch(UpperChars, i) \/ c = Ch(LowerChars, i)

Whitespace == { " ", "\t", "\n", "\r" }

\* the positions of s whose character is not in the set D
Keeps(s, D) == { i \in 1..Len(s) : Ch(s, i) \notin D }

\* the j-th smallest member of a set of positions
Nth(K, j) == CHOOSE i \in K : Cardinality({ k \in K : k <= i }) = j

SanitizeReturned == fn_pc = "returned" /\ fn_name = "sanitize_filename"

\* the part of a returned file name between the section prefix and ".pdf"
TitlePart(name, section) ==
    Sub(name, IF section = "" THEN 1 ELSE Len(section) + 2, Len(name) - 4)

\* the returned name is section_ + title part + .pdf, the title part is at
\* most 80 characters, holds no whitespace and no doubled or leading
\* underscore, and what it holds besides underscores is, in order, the start
\* of the title characters outside the set dropped (all of them when nothing
\* was cut)
C11_Shape(dropped) ==
    LET title == fn_args[1]
        section == fn_args[2]
        part == TitlePart(fn_ret, section)
        P == Keeps(part, {"_"})
        K == Keeps(title, dropped)
    IN /\ Sub(fn_ret, Len(fn_ret) - 3, Len(fn_ret)) = ".pdf"
       /\ (section # "" => startswith(fn_ret, section \o "_"))
       /\ Len(fn_ret) = Len(part) + 4 + (IF section = "" THEN 0 ELSE Len(section) + 1)
       /\ Len(part) <= 80
       /\ \A i \in 1..Len(part) : Ch(part, i) \notin Whitespace
       /\ ~contains(part, "__")
       /\ Ch(part, 1) # "_"
       /\ Cardinality(P) <= Cardinality(K)
       /\ \A j \in 1..Cardinality(P) : Ch(part, Nth(P, j)) = Ch(title, Nth(K, j))
       /\ (Len(part) < 80 => Cardinality(P) = Cardinality(K))

\* C11: the file name is the section, an underscore, the title with every
\* non-alphanumeric character stripped and whitespace runs turned into one
\* underscore, cut to 80 characters, and ".pdf".
C11_AlnumOnly ==
    SanitizeReturned =>
        C11_Shape({ Ch(fn_args[1], i) : i \in { j \in 1..Len(fn_args[1]) :
                                                  ~IsAlnum(Ch(fn_args[1], j)) } })

\* C11 as amended: only the characters < > : " / \ | ? * are stripped, every
\* other character that is not whitespace is kept.
C11_InvalidCharsOnly ==
    SanitizeReturned =>
        C11_Shape({ "<", ">", ":", "\"", "/", "\\", "|", "?", "*" } \cup Whitespace)

C11_Witness ==
    /\ SanitizeReturned
    /\ fn_args[2] = "CVPR"
    /\ Len(fn_args[1]) > 80
    /\ Len(TitlePart(fn_ret, "CVPR")) = 80
    /\ contains(fn_ret, "_Nets-2!")

(***************************************************************************)
(* Header lines.                                                           *)
(***************************************************************************)
\* the positions in SectionNames of the names whose header pattern the line
\* matches: hashes, optional whitespace, then the name (for
\* Test-of-Time-Papers the phrase "test of time paper(s)") in any case,
\* followed by whitespace or the end of the line
C12_Matching ==
    [ l \in AllLines |->
        { i \in 1..Len(SectionNames) :
            LET t == HeaderText(l)
                phrases == IF SectionNames[i] = "Test-of-Time-Papers"
                           THEN { "test of time paper", "test of time papers" }
                           ELSE { lower(SectionNames[i]) }
            IN \E ph \in phrases : t = ph \/ startswith(t, ph \o " ") } ]

C12_StepInv ==
    (pc = "scanning" /\ idx' = idx + 1 /\ C12_Matching[content[idx + 1]] # {}) =>
        /\ \E i \in C12_Matching[content[idx + 1]] :
              /\ \A j \in C12_Matching[content[idx + 1]] : i <= j
              /\ current_section' = SectionNames[i]
        /\ sections' = sections
        /\ pc' = "scanning"

C12_NoHeaderRecord ==
    InScan =>
        \A S \in DOMAIN sections : \A k \in 1..Len(sections[S]) :
            C12_Matching[sections[S][k].raw_line] = {}

\* C12: a line matching a section-header pattern produces no record; it sets
\* current_section to the first name in configured order whose pattern matches
\* and the scan goes on with the next line, so a header for X directly
\* followed by a header for Y leaves X's sequence as it was.
C12_HeaderOpensSection == [](C12_NoHeaderRecord) /\ [][C12_StepInv]_vars

C12_Witness ==
    /\ Finished
    /\ Len(content) = 3
    /\ C12_Matching[content[1]] = {1}
    /\ content[2] = "## iclr 2024"
    /\ content[3] \in PaperLines
    /\ DOMAIN result = SectionSet
    /\ result[SectionNames[1]] = << >>
    /\ Len(result["ICLR"]) = 1

(***************************************************************************)
(* Properties of extract_title_from_line.                                  *)
(***************************************************************************)
\* the line has the form text (parenthetical) [bracketed] with the text
\* ending at position i: optional whitespace, a parenthesis around one or
\* more characters other than ')', optional whitespace, a bracket pair
C13_FormA(s, i) ==
    \E k \in (i + 1)..Len(s) :
        /\ Ch(s, k) = "("
        /\ \A w \in (i + 1)..(k - 1) : Ch(s, w) \in Whitespace
        /\ \E m \in (k + 2)..Len(s) :
              /\ Ch(s, m) = ")"
              /\ \A x \in (k + 1)..(m - 1) : Ch(s, x) # ")"
              /\ \E p \in (m + 1)..Len(s) :
                    /\ Ch(s, p) = "["
                    /\ \A w \in (m + 1)..(p - 1) : Ch(s, w) \in Whitespace
                    /\ \E q \in (p + 1)..Len(s) : Ch(s, q) = "]"

\* a markdown link [label](url) with its label between positions p and q:
\* a non-empty label, then ']' '(' one or more characters other than ')' ')'
C13_FormB(s, p, q) ==
    /\ Ch(s, p) = "["
    /\ q >= p + 2
    /\ Ch(s, q) = "]"
    /\ Ch(s, q + 1) = "("
    /\ \E e \in (q + 3)..Len(s) :
          Ch(s, e) = ")" /\ \A x \in (q + 2)..(e - 1) : Ch(s, x) # ")"

\* the text the first applicable rule selects
C13_Selected(raw) ==
    LET s == strip(raw)
        A == { i \in 1..Len(s) : C13_FormA(s, i) }
        B == { pq \in (1..Len(s)) \X (1..Len(s)) : C13_FormB(s, pq[1], pq[2]) }
    IN IF A # {}
       THEN strip(Sub(s, 1, CHOOSE i \in A : \A j \in A : i <= j))
       ELSE IF B # {}
       THEN LET pq == CHOOSE pq \in B :
                        \A o \in B : pq[1] < o[1] \/ (pq[1] = o[1] /\ pq[2] <= o[2])
            IN strip(Sub(s, pq[1] + 1, pq[2] - 1))
       ELSE strip(StripTrailingYearParen(strip(StripTrailingBracket(s))))

C13_SelectedTable == [ a \in ExtractInputs |-> C13_Selected(a[1]) ]

ExtractReturned == fn_pc = "returned" /\ fn_name = "extract_title_from_line"

C13_Examples ==
    ExtractReturned =>
        /\ fn_args[1] = "Awesome Detection Method (CVPR 2023) [Paper]"
              => fn_ret = "Awesome Detection Method"
        /\ fn_args[1] = "[Great Paper Title](https://example.com/paper.pdf)"
              => fn_ret = "Great Paper Title"

RECURSIVE C14_LinesOf(_, _, _)
C14_LinesOf(doc, n, S) ==
    IF n = 0 THEN << >>
    ELSE IF /\ LineFacts[doc[n]].header = None
            /\ LineFacts[doc[n]].is_title
            /\ LineFacts[doc[n]].valid
            /\ NearestHeader(doc, n - 1) = S
         THEN Append(C14_LinesOf(doc, n - 1, S), doc[n])
         ELSE C14_LinesOf(doc, n - 1, S)

C14_StateInv ==
    InScan =>
        \A S \in DOMAIN sections :
            [ k \in 1..Len(sections[S]) |-> sections[S][k].raw_line ]
                = C14_LinesOf(content, idx, S)

C14_StepInv ==
    (pc = "scanning") =>
        \A S \in DOMAIN sections :
            /\ S \in DOMAIN sections'
            /\ Len(sections'[S]) >= Len(sections[S])
            /\ SubSeq(sections'[S], 1, Len(sections[S])) = sections[S]

\* C14: within a section's sequence the records are in document order, also
\* when headers of other sections or a repeated header of the same section
\* lie between the lines; records are only appended, never removed or
\* reordered.
C14_DocumentOrder == [](C14_StateInv) /\ [][C14_StepInv]_vars

C14_Witness ==
    /\ Finished
    /\ content = << "#### CVPR",
                    "Awesome Detection Method (CVPR 2023) [Paper]",
                    "## iclr 2024",
                    "#### CVPR",
                    "[Great Paper Title](https://example.com/paper.pdf)" >>
    /\ DOMAIN result = SectionSet
    /\ Len(result["CVPR"]) = 2
    /\ result["CVPR"][1].title = "Awesome Detection Method"
    /\ result["CVPR"][2].title = "Great Paper Title"
    /\ result["ICLR"] = << >>

(***************************************************************************)
(* Outcomes of the download loop.                                          *)
(***************************************************************************)
\* how many entries of a report list are about the record
C15_Entries(list, paper) ==
    Cardinality({ k \in 1..Len(list) :
                    list[k].title = paper.title /\ list[k].section = paper.section })

C15_Outcomes(st) == st.downloaded + st.already_existed + st.failed

\* the loop has given each of the first paper_i - 1 unique records one
\* outcome and the others none
C15_StateInv ==
    InLoop =>
        /\ stats.unique_papers = Len(unique_papers)
        /\ C15_Outcomes(stats) = paper_i - 1
        /\ stats.downloaded + stats.already_existed = Len(downloaded_papers)
        /\ stats.failed = Len(failed_papers)
        /\ \A k \in 1..Len(unique_papers) :
              C15_Entries(downloaded_papers, unique_papers[k][2])
                + C15_Entries(failed_papers, unique_papers[k][2])
                  = IF k < paper_i THEN 1 ELSE 0
        /\ \A sec \in SectionSet :
              C15_Outcomes(stats.sections[sec]) <= stats.sections[sec].total

\* C15: when the download loop has run to its end every unique record has
\* exactly one outcome: downloaded + already_existed + failed equals
\* unique_papers, each unique record is once in downloaded_papers or in
\* failed_papers and never in both, and no section's downloaded +
\* already_existed + failed exceeds its total.
C15_OneOutcomeEach ==
    /\ C15_StateInv
    /\ ppc = "done" =>
          /\ paper_i = Len(unique_papers) + 1
          /\ C15_Outcomes(stats) = stats.unique_papers
          /\ Len(downloaded_papers) + Len(failed_papers) = Len(unique_papers)

C15_Witness ==
    /\ ppc = "done"
    /\ Len(unique_papers) = 2
    /\ stats.downloaded = 1
    /\ stats.failed = 1
    /\ Len(downloaded_papers) = 1
    /\ Len(failed_papers) = 1
    /\ failed_papers[1].reason = "Download failed"
    /\ downloaded_papers[1].title # failed_papers[1].title

====
